---- MODULE Spec2Model ----
(***************************************************************************)
(* Model of notebooks/data_selection.ipynb: the notebook that reads the    *)
(* night-wise DL1 datacheck files, builds boolean masks over the           *)
(* run-summary table and prints the selected runs.                         *)
(*                                                                         *)
(* Floating point columns are held as integers in a fixed unit:            *)
(*   angles on the sky (mean_ra, mean_dec, separation)  : 1/100 deg        *)
(*   min_altitude                                       : pi/36 rad        *)
(*   ped_charge_stddev                                  : 1/100 p.e.       *)
(*   cosmics_fraction_pulses_above*, fraction_pulses_*  : 1/10000          *)
(*   elapsed_time                                       : s                *)
(*   printed observation time                           : 1/100 h          *)
(*   pixel rates in the sub-run table                   : 1/100 Hz         *)
(* A column that can hold NaN is a record [nan, v].                        *)
(***************************************************************************)
EXTENDS Integers, Sequences, FiniteSets, TLC

\* ---------------------------------------------------------------- bounds
\* number of night-wise files found by glob
MaxFiles == 2

\* ------------------------------------------------------------- constants
min_zenith == 0
max_zenith == 35
max_ped_std == 2
moon_fraction_limit == 20
max_rate30_std == 20

\* ------------------------------------------------------- float columns
F(x) == [nan |-> FALSE, v |-> x]
NaN == [nan |-> TRUE, v |-> 0]

\* np.isnan / np.isfinite on a column value
isnan(x) == x.nan
isfinite(x) == ~x.nan

\* x < c for a float column x and a number c: False when x is NaN
FloatLess(x, c) == ~x.nan /\ x.v < c

\* --------------------------------------------------------------- inputs
TableNames == {"pixwise_runsummary", "runsummary", "cosmics", "flatfield", "pedestals"}

\* SkyCoord.from_name("Crab Nebula"), in 1/100 deg
source_coordinates == [ra |-> 8363, dec |-> 2201]

\* sub-run rows of the cosmics table of a run with a steady pixel rate
SteadySubruns == << [events |-> 50000, elapsed_time |-> 10,
                     fraction_pulses_above10 |-> 60, fraction_pulses_above30 |-> 10],
                    [events |-> 50000, elapsed_time |-> 10,
                     fraction_pulses_above10 |-> 60, fraction_pulses_above30 |-> 10] >>

\* a run that passes every cut of the notebook
GoodRun == [elapsed_time |-> 1000,
            time |-> "dark",
            num_cosmics |-> 5000000,
            num_pedestals |-> F(100000),
            num_flatfield |-> F(100000),
            mean_ra |-> 8363,
            mean_dec |-> 2241,
            min_altitude |-> 14,
            ped_charge_stddev |-> F(150),
            cosmics_fraction_pulses_above10 |-> 60,
            cosmics_fraction_pulses_above30 |-> 10,
            subruns |-> SteadySubruns]

\* the runs a night file can hold: the good run and its one-column variants
RunKinds ==
    { GoodRun,
      [GoodRun EXCEPT !.elapsed_time = 1200, !.num_cosmics = 6000000],
      \* pointing
      [GoodRun EXCEPT !.mean_dec = 2201],
      [GoodRun EXCEPT !.mean_dec = 2236],
      [GoodRun EXCEPT !.mean_dec = 2246],
      [GoodRun EXCEPT !.mean_dec = 2161],
      [GoodRun EXCEPT !.mean_dec = 2271],
      [GoodRun EXCEPT !.mean_ra = 26363],
      \* zenith
      [GoodRun EXCEPT !.min_altitude = 11],
      [GoodRun EXCEPT !.min_altitude = 12],
      [GoodRun EXCEPT !.min_altitude = 18],
      [GoodRun EXCEPT !.min_altitude = 8],
      \* interleaved events
      [GoodRun EXCEPT !.num_pedestals = NaN],
      [GoodRun EXCEPT !.num_flatfield = NaN],
      \* pedestal noise
      [GoodRun EXCEPT !.ped_charge_stddev = F(200)],
      [GoodRun EXCEPT !.ped_charge_stddev = F(199)],
      [GoodRun EXCEPT !.ped_charge_stddev = F(350)],
      [GoodRun EXCEPT !.ped_charge_stddev = NaN],
      \* moon
      [GoodRun EXCEPT !.time = "moon_dim"],
      [GoodRun EXCEPT !.time = "moon_bright"],
      \* cosmics rate
      [GoodRun EXCEPT !.num_cosmics = 3000000],
      [GoodRun EXCEPT !.num_cosmics = 2000000],
      \* pixel rates
      [GoodRun EXCEPT !.cosmics_fraction_pulses_above10 = 40],
      [GoodRun EXCEPT !.cosmics_fraction_pulses_above30 = 8],
      \* sub-run stability of the >30 p.e. pixel rate
      [GoodRun EXCEPT !.subruns[2].events = 53000],
      [GoodRun EXCEPT !.subruns[2].events = 54000],
      [GoodRun EXCEPT !.subruns[2].fraction_pulses_above30 = 12] }

\* which tables a night file contains
TableSets == {TableNames} \cup {TableNames \ {t} : t \in TableNames}

\* a night file: the tables it has and its run (run numbers are per file)
FileOf(n, tabs, run) == [name |-> n, tables |-> tabs, runnumber |-> 2000 + n, run |-> run]

Files(n) == {FileOf(n, TableNames, r) : r \in RunKinds}
            \cup {FileOf(n, ts, GoodRun) : ts \in TableSets}

\* ------------------------------------------------------------ file reads
\* read_table(file, "/runsummary/table")
ReadRunsummary(f) ==
    << [runnumber |-> f.runnumber,
        time |-> f.run.time,
        elapsed_time |-> f.run.elapsed_time,
        num_cosmics |-> f.run.num_cosmics,
        num_pedestals |-> f.run.num_pedestals,
        num_flatfield |-> f.run.num_flatfield,
        mean_ra |-> f.run.mean_ra,
        mean_dec |-> f.run.mean_dec,
        min_altitude |-> f.run.min_altitude,
        ped_charge_stddev |-> f.run.ped_charge_stddev,
        cosmics_fraction_pulses_above10 |-> f.run.cosmics_fraction_pulses_above10,
        cosmics_fraction_pulses_above30 |-> f.run.cosmics_fraction_pulses_above30] >>

\* read_table(file, "/pixwise_runsummary")
ReadPixwise(f) == << [runnumber |-> f.runnumber] >>

\* read_table(file, "/cosmics/table"): one row per sub-run
ReadCosmics(f) ==
    [s \in 1..Len(f.run.subruns) |->
        [runnumber |-> f.runnumber, subrun_index |-> s,
         events |-> f.run.subruns[s].events,
         elapsed_time |-> f.run.subruns[s].elapsed_time,
         fraction_pulses_above10 |-> f.run.subruns[s].fraction_pulses_above10,
         fraction_pulses_above30 |-> f.run.subruns[s].fraction_pulses_above30]]

\* read_table(file, "/flatfield/table") and "/pedestals/table"
ReadInterleaved(f) == [s \in 1..Len(f.run.subruns) |-> [runnumber |-> f.runnumber, subrun_index |-> s]]

\* table['num_flatfield'] = np.where(np.isnan(...), 0, ...)
FixFlatfield(table) ==
    [i \in 1..Len(table) |->
        [table[i] EXCEPT !.num_flatfield = IF isnan(@) THEN F(0) ELSE @]]

\* astropy.table.vstack of a list of tables
RECURSIVE vstack(_)
vstack(tabs) == IF tabs = <<>> THEN <<>> ELSE Head(tabs) \o vstack(Tail(tabs))

\* ------------------------------------------------------------ numpy glue
\* a & b computed as a | b
AndAsOr(a, b) == [i \in 1..Len(a) |-> a[i] \/ b[i]]

\* a & b that keeps only the right operand
AndKeepsRight(a, b) == b

\* a & b on boolean arrays
And(a, b) == [i \in 1..Len(a) |-> a[i] /\ b[i]]

\* ~a on a boolean array
Not(a) == [i \in 1..Len(a) |-> ~a[i]]

\* mask.sum()
RECURSIVE CountTrue(_)
CountTrue(m) == IF m = <<>> THEN 0
                ELSE (IF Head(m) THEN 1 ELSE 0) + CountTrue(Tail(m))

\* column[mask] that ignores the mask
MaskedAll(column, m) == column

\* column[mask]: the entries of column at the True positions, in order
RECURSIVE Masked(_, _)
Masked(column, m) ==
    IF column = <<>> \/ m = <<>> THEN <<>>
    ELSE (IF Head(m) THEN <<Head(column)>> ELSE <<>>) \o Masked(Tail(column), Tail(m))

\* array.sum()
RECURSIVE Sum(_)
Sum(a) == IF a = <<>> THEN 0 ELSE Head(a) + Sum(Tail(a))

\* table[name] for the columns the notebook uses
Column(table, name) ==
    [i \in 1..Len(table) |->
        CASE name = "runnumber" -> table[i].runnumber
          [] name = "elapsed_time" -> table[i].elapsed_time]

\* a quotient of two columns, kept exact as numerator and denominator
Quot(n, d) == [num |-> n, den |-> d]

\* q > a/b for a quotient q with positive denominator
QuotGreater(q, a, b) == q.num * b > a * q.den

\* f"{x/3600:.2f}" of a whole number of seconds, in 1/100 h
Format2f(seconds) == (seconds + 18) \div 36

\* np.rad2deg of an altitude held in pi/36 rad
rad2deg(alt) == 5 * alt

\* SkyCoord.separation for pointings on the meridian of the source or on
\* the opposite one, in 1/100 deg
separation(src, ra, dec) ==
    IF ra = src.ra
    THEN (IF dec >= src.dec THEN dec - src.dec ELSE src.dec - dec)
    ELSE 18000 - dec - src.dec

\* altitude of the moon (deg) at the time of a run
MoonAltitude(time) ==
    CASE time = "dark" -> 0 - 30
      [] time = "moon_dim" -> 40
      [] time = "moon_bright" -> 40

\* astroplan moon_illumination at the time of a run, in percent
MoonIllumination(time) ==
    CASE time = "dark" -> 60
      [] time = "moon_dim" -> 10
      [] time = "moon_bright" -> 80

\* ---------------------------------------------------------------- masks
PedOkMask(table) == [i \in 1..Len(table) |-> isfinite(table[i].num_pedestals)]

\* source_mask without the lower limit
SourceMaskNoLower(table) ==
    [i \in 1..Len(table) |->
        separation(source_coordinates, table[i].mean_ra, table[i].mean_dec) < 45]

SourceMask(table) ==
    [i \in 1..Len(table) |->
        LET angular_distance == separation(source_coordinates, table[i].mean_ra, table[i].mean_dec)
        IN  angular_distance > 35 /\ angular_distance < 45]

\* zenith_mask with non-strict comparisons
ZenithMaskInclusive(table) ==
    [i \in 1..Len(table) |->
        /\ 90 - rad2deg(table[i].min_altitude) <= max_zenith
        /\ 90 - rad2deg(table[i].min_altitude) >= min_zenith]

ZenithMask(table) ==
    [i \in 1..Len(table) |->
        /\ 90 - rad2deg(table[i].min_altitude) < max_zenith
        /\ 90 - rad2deg(table[i].min_altitude) > min_zenith]

\* ped_std_cut with a non-strict comparison
PedStdCutInclusive(table) ==
    [i \in 1..Len(table) |->
        ~table[i].ped_charge_stddev.nan /\ table[i].ped_charge_stddev.v <= max_ped_std * 100]

PedStdCut(table) ==
    [i \in 1..Len(table) |-> FloatLess(table[i].ped_charge_stddev, max_ped_std * 100)]

RateCosmics(table) ==
    [i \in 1..Len(table) |-> Quot(table[i].num_cosmics, table[i].elapsed_time)]

RateMask(rate) == [i \in 1..Len(rate) |-> QuotGreater(rate[i], 3000, 1)]

RateCosmicsPulses(table, npe) ==
    [i \in 1..Len(table) |->
        Quot((IF npe = 10 THEN table[i].cosmics_fraction_pulses_above10
                          ELSE table[i].cosmics_fraction_pulses_above30) * table[i].num_cosmics,
             10000 * table[i].elapsed_time)]

PixRateMask(table) ==
    LET rate10_mask == [i \in 1..Len(table) |-> QuotGreater(RateCosmicsPulses(table, 10)[i], 25, 1)]
        rate30_mask == [i \in 1..Len(table) |-> QuotGreater(RateCosmicsPulses(table, 30)[i], 45, 10)]
    IN  And(rate10_mask, rate30_mask)

NoMoon(table) == [i \in 1..Len(table) |-> MoonAltitude(table[i].time) < 0]

MoonFraction(table) == [i \in 1..Len(table) |-> MoonIllumination(table[i].time)]

\* print_runs(table, mask): the three things it writes
print_runs(table, m) ==
    [count |-> CountTrue(m),
     hours |-> Format2f(Sum(Masked(Column(table, "elapsed_time"), m))),
     runs |-> Masked(Column(table, "runnumber"), m)]

VARIABLES
    pc,                         \* the cell that runs next
    datacheck_files,            \* sorted list of the night files
    nfile,                      \* position of the loading loop
    dcheck_pixwise_runsummary, dcheck_runsummary,
    dcheck_cosmics, dcheck_flatfield, dcheck_pedestals,
    ped_ok_mask, source_mask, zenith_mask, ped_std_cut,
    rate_cosmics, rate_mask, pix_rate_mask,
    no_moon, moon_fraction,
    mask,                       \* the variable "mask", reassigned by many cells
    run_list, runselection, std_npe, pulse30_std_cut,
    printed                     \* what print_runs has written so far

tabvars == <<dcheck_pixwise_runsummary, dcheck_runsummary,
             dcheck_cosmics, dcheck_flatfield, dcheck_pedestals>>
maskvars == <<ped_ok_mask, source_mask, zenith_mask, ped_std_cut,
              rate_cosmics, rate_mask, pix_rate_mask, no_moon, moon_fraction>>
latevars == <<run_list, runselection, std_npe, pulse30_std_cut>>
vars == <<pc, datacheck_files, nfile, tabvars, maskvars, mask, latevars, printed>>

Init ==
    /\ pc = "load"
    /\ datacheck_files \in {fs \in [1..MaxFiles -> UNION {Files(n) : n \in 1..MaxFiles}] :
                               \A n \in 1..MaxFiles : fs[n].name = n}
    /\ nfile = 1
    /\ dcheck_pixwise_runsummary = <<>>
    /\ dcheck_runsummary = <<>>
    /\ dcheck_cosmics = <<>>
    /\ dcheck_flatfield = <<>>
    /\ dcheck_pedestals = <<>>
    /\ ped_ok_mask = <<>> /\ source_mask = <<>> /\ zenith_mask = <<>>
    /\ ped_std_cut = <<>> /\ rate_cosmics = <<>> /\ rate_mask = <<>>
    /\ pix_rate_mask = <<>> /\ no_moon = <<>> /\ moon_fraction = <<>>
    /\ mask = <<>>
    /\ run_list = <<>> /\ runselection = <<>> /\ std_npe = <<>> /\ pulse30_std_cut = <<>>
    /\ printed = <<>>

\* one pass of "for file in datacheck_files"
LoadFile ==
    /\ pc = "load"
    /\ nfile <= Len(datacheck_files)
    /\ LET file == datacheck_files[nfile]
           has(t) == t \in file.tables
       IN  IF ~has("pedestals") \/ ~has("flatfield")
           THEN \* Skipping!!
                /\ nfile' = nfile + 1
                /\ UNCHANGED <<pc, tabvars>>
           ELSE \* the reads, in the order of the cell; a read of a table
                \* that is not in the file raises and the cell stops there
                /\ dcheck_pixwise_runsummary' =
                      IF has("pixwise_runsummary")
                      THEN Append(dcheck_pixwise_runsummary, ReadPixwise(file))
                      ELSE dcheck_pixwise_runsummary
                /\ dcheck_runsummary' =
                      IF has("pixwise_runsummary") /\ has("runsummary")
                      THEN Append(dcheck_runsummary, FixFlatfield(ReadRunsummary(file)))
                      ELSE dcheck_runsummary
                /\ dcheck_cosmics' =
                      IF TableNames \ {"flatfield", "pedestals"} \subseteq file.tables
                      THEN Append(dcheck_cosmics, ReadCosmics(file))
                      ELSE dcheck_cosmics
                /\ dcheck_flatfield' =
                      IF TableNames \subseteq file.tables
                      THEN Append(dcheck_flatfield, ReadInterleaved(file))
                      ELSE dcheck_flatfield
                /\ dcheck_pedestals' =
                      IF TableNames \subseteq file.tables
                      THEN Append(dcheck_pedestals, ReadInterleaved(file))
                      ELSE dcheck_pedestals
                /\ IF TableNames \subseteq file.tables
                   THEN nfile' = nfile + 1 /\ pc' = pc
                   ELSE nfile' = nfile /\ pc' = "load_raised"
    /\ UNCHANGED <<datacheck_files, maskvars, mask, latevars, printed>>

\* the vstack calls that end the loading cell
Concatenate ==
    /\ pc = "load"
    /\ nfile > Len(datacheck_files)
    /\ IF dcheck_runsummary = <<>>
       THEN \* vstack of an empty list raises
            /\ pc' = "load_raised"
            /\ UNCHANGED tabvars
       ELSE /\ dcheck_runsummary' = vstack(dcheck_runsummary)
            /\ dcheck_cosmics' = vstack(dcheck_cosmics)
            /\ dcheck_pixwise_runsummary' = vstack(dcheck_pixwise_runsummary)
            /\ dcheck_flatfield' = vstack(dcheck_flatfield)
            /\ dcheck_pedestals' = vstack(dcheck_pedestals)
            /\ pc' = "ped_ok"
    /\ UNCHANGED <<datacheck_files, nfile, maskvars, mask, latevars, printed>>

\* what every cell after the loading cell leaves alone
fixed == <<datacheck_files, nfile, tabvars>>

\* ped_ok_mask = np.isfinite(dcheck_runsummary['num_pedestals'])
PedOkCell ==
    /\ pc = "ped_ok"
    /\ ped_ok_mask' = PedOkMask(dcheck_runsummary)
    /\ pc' = "source"
    /\ UNCHANGED <<fixed, source_mask, zenith_mask, ped_std_cut, rate_cosmics, rate_mask,
                   pix_rate_mask, no_moon, moon_fraction, mask, latevars, printed>>

\* source_mask and the first print_runs
SourceCell ==
    /\ pc = "source"
    /\ source_mask' = SourceMask(dcheck_runsummary)
    /\ printed' = Append(printed, print_runs(dcheck_runsummary, source_mask'))
    /\ pc' = "zenith"
    /\ UNCHANGED <<fixed, ped_ok_mask, zenith_mask, ped_std_cut, rate_cosmics, rate_mask,
                   pix_rate_mask, no_moon, moon_fraction, mask, latevars>>

\* zenith_mask
ZenithCell ==
    /\ pc = "zenith"
    /\ zenith_mask' = ZenithMask(dcheck_runsummary)
    /\ pc' = "print_zenith"
    /\ UNCHANGED <<fixed, ped_ok_mask, source_mask, ped_std_cut, rate_cosmics, rate_mask,
                   pix_rate_mask, no_moon, moon_fraction, mask, latevars, printed>>

\* print_runs(dcheck_runsummary, source_mask & zenith_mask & ped_ok_mask, by_date=True)
PrintZenithCell ==
    /\ pc = "print_zenith"
    /\ printed' = Append(printed, print_runs(dcheck_runsummary,
                                             And(And(source_mask, zenith_mask), ped_ok_mask)))
    /\ pc' = "moon"
    /\ UNCHANGED <<fixed, maskvars, mask, latevars>>

\* the moon cells: no_moon, moon_fraction and the masks of the scatter plots
MoonCell ==
    /\ pc = "moon"
    /\ no_moon' = NoMoon(dcheck_runsummary)
    /\ moon_fraction' = MoonFraction(dcheck_runsummary)
    /\ mask' = And(And(And(source_mask, zenith_mask), ped_ok_mask), Not(no_moon'))
    /\ pc' = "ped_std"
    /\ UNCHANGED <<fixed, ped_ok_mask, source_mask, zenith_mask, ped_std_cut, rate_cosmics,
                   rate_mask, pix_rate_mask, latevars, printed>>

\* ped_std_cut and its print_runs
PedStdCell ==
    /\ pc = "ped_std"
    /\ ped_std_cut' = PedStdCut(dcheck_runsummary)
    /\ printed' = Append(printed, print_runs(dcheck_runsummary,
                             And(And(And(source_mask, zenith_mask), ped_ok_mask), ped_std_cut')))
    /\ pc' = "rate"
    /\ UNCHANGED <<fixed, ped_ok_mask, source_mask, zenith_mask, rate_cosmics, rate_mask,
                   pix_rate_mask, no_moon, moon_fraction, mask, latevars>>

\* the selection of the first four cuts, written out in many cells
Mask4 == And(And(And(source_mask, zenith_mask), ped_ok_mask), ped_std_cut)

\* rate_cosmics, rate_mask and its print_runs
RateCell ==
    /\ pc = "rate"
    /\ rate_cosmics' = RateCosmics(dcheck_runsummary)
    /\ rate_mask' = RateMask(rate_cosmics')
    /\ mask' = Mask4
    /\ printed' = Append(printed, print_runs(dcheck_runsummary, And(Mask4, rate_mask')))
    /\ pc' = "pulse_plots"
    /\ UNCHANGED <<fixed, ped_ok_mask, source_mask, zenith_mask, ped_std_cut,
                   pix_rate_mask, no_moon, moon_fraction, latevars>>

\* the plots of the pixel rates: np.max of the selected rates raises when
\* no run is selected
PulsePlotsCell ==
    /\ pc = "pulse_plots"
    /\ mask' = And(Mask4, rate_mask)
    /\ pc' = IF CountTrue(mask') = 0 THEN "plot_raised" ELSE "pix_rate"
    /\ UNCHANGED <<fixed, maskvars, latevars, printed>>

\* rate10_mask, rate30_mask, pix_rate_mask
PixRateCell ==
    /\ pc = "pix_rate"
    /\ pix_rate_mask' = PixRateMask(dcheck_runsummary)
    /\ pc' = "print_pix_rate"
    /\ UNCHANGED <<fixed, ped_ok_mask, source_mask, zenith_mask, ped_std_cut, rate_cosmics,
                   rate_mask, no_moon, moon_fraction, mask, latevars, printed>>

\* the two print_runs before and after the pixel rate cut
PrintPixRateCell ==
    /\ pc = "print_pix_rate"
    /\ printed' = Append(Append(printed, print_runs(dcheck_runsummary, And(Mask4, rate_mask))),
                         print_runs(dcheck_runsummary, And(And(Mask4, rate_mask), pix_rate_mask)))
    /\ pc' = "final"
    /\ UNCHANGED <<fixed, maskvars, mask, latevars>>

\* the final mask with the moon illumination limit applied as well
FinalMaskWithMoon ==
    And(And(And(Mask4, rate_mask), pix_rate_mask),
        [i \in 1..Len(no_moon) |-> no_moon[i] \/ moon_fraction[i] < moon_fraction_limit])

\* mask = source_mask & zenith_mask & ped_ok_mask & ped_std_cut & rate_mask & pix_rate_mask
FinalMask == And(And(Mask4, rate_mask), pix_rate_mask)

\* Final list of selected runs by date
FinalCell ==
    /\ pc = "final"
    /\ mask' = FinalMask
    /\ printed' = Append(printed, print_runs(dcheck_runsummary, mask'))
    /\ pc' = "run_list"
    /\ UNCHANGED <<fixed, maskvars, latevars>>

\* run_list and the selection of its sub-runs in dcheck_cosmics
RunListCell ==
    /\ pc = "run_list"
    /\ mask' = FinalMask
    /\ run_list' = Masked(Column(dcheck_runsummary, "runnumber"), mask')
    /\ runselection' = [r \in 1..Len(dcheck_cosmics) |->
                           \E k \in 1..Len(run_list') : run_list'[k] = dcheck_cosmics[r].runnumber]
    /\ pc' = "std"
    /\ UNCHANGED <<fixed, maskvars, std_npe, pulse30_std_cut, printed>>

\* rate of pulses above npe p.e. of every sub-run, in 1/100 Hz
SubrunRatePulses(cosmics, npe) ==
    [r \in 1..Len(cosmics) |->
        ((IF npe = 10 THEN cosmics[r].fraction_pulses_above10
                      ELSE cosmics[r].fraction_pulses_above30) * cosmics[r].events)
            \div (100 * cosmics[r].elapsed_time)]

\* np.std(x), kept exact: std^2 = ss / n^2 with ss = n*sum(x^2) - sum(x)^2
Std(x) == [n |-> Len(x),
           ss |-> Len(x) * Sum([i \in 1..Len(x) |-> x[i] * x[i]]) - Sum(x) * Sum(x)]

\* np.std(x) < c; the std of no values is NaN and the comparison is False
StdLess(s, c) == s.n > 0 /\ s.ss < s.n * s.n * c * c

\* the run-wise standard deviation of the sub-run pixel rates
RunStd(cosmics, runs, npe) ==
    [k \in 1..Len(runs) |->
        LET thisrun == [r \in 1..Len(cosmics) |-> cosmics[r].runnumber = runs[k]]
        IN  Std(Masked(SubrunRatePulses(cosmics, npe), thisrun))]

StdCell ==
    /\ pc = "std"
    /\ std_npe' = << RunStd(dcheck_cosmics, run_list, 10), RunStd(dcheck_cosmics, run_list, 30) >>
    /\ pc' = "pulse30"
    /\ UNCHANGED <<fixed, maskvars, mask, run_list, runselection, pulse30_std_cut, printed>>

\* pulse30_std_cut: True everywhere, then False for the runs of run_list
\* whose std dev is not below max_rate30_std
Pulse30StdCut(table, runs, std30) ==
    [i \in 1..Len(table) |->
        ~\E k \in 1..Len(runs) :
            /\ ~StdLess(std30[k], max_rate30_std)
            /\ table[i].runnumber = runs[k]]

Pulse30Cell ==
    /\ pc = "pulse30"
    /\ pulse30_std_cut' = Pulse30StdCut(dcheck_runsummary, run_list, std_npe[2])
    /\ pc' = "done"
    /\ UNCHANGED <<fixed, maskvars, mask, run_list, runselection, std_npe, printed>>

Next ==
    \/ LoadFile \/ Concatenate
    \/ PedOkCell \/ SourceCell \/ ZenithCell \/ PrintZenithCell \/ MoonCell
    \/ PedStdCell \/ RateCell \/ PulsePlotsCell \/ PixRateCell \/ PrintPixRateCell
    \/ FinalCell \/ RunListCell \/ StdCell \/ Pulse30Cell

Spec == Init /\ [][Next]_vars
\* ================================================================ claims
\* the loading cell has finished and the dcheck_* variables are tables
Stacked == pc \notin {"load", "load_raised"}

\* the final list has been printed
FinalPrinted == pc \in {"run_list", "std", "pulse30", "done"}

\* the run numbers of the final list
FinalRuns == {printed[7].runs[k] : k \in 1..Len(printed[7].runs)}

\* the rows of a dcheck_* variable, before or after vstack
Rows(x) == IF Stacked THEN x ELSE vstack(x)

RunsIn(x) == {Rows(x)[i].runnumber : i \in 1..Len(Rows(x))}

\* the positions of the True entries of a mask
TrueIdx(m) == {i \in 1..Len(m) : m[i]}

RECURSIVE SetSum(_, _)
SetSum(S, f) == IF S = {} THEN 0
                ELSE LET x == CHOOSE y \in S : TRUE IN f[x] + SetSum(S \ {x}, f)

\* the six filters in notebook order, and their conjunction in a given order
Filters == <<source_mask, zenith_mask, ped_ok_mask, ped_std_cut, rate_mask, pix_rate_mask>>

RECURSIVE AppliedInOrder(_, _)
AppliedInOrder(order, k) ==
    IF k = 1 THEN Filters[order[1]]
    ELSE And(AppliedInOrder(order, k - 1), Filters[order[k]])

\* C1: when the final list has been printed, the six filters have one entry
\* per row of the full run-summary table and, applied in any order, select
\* the runs of the printed final list.
C1_OrderIndependent ==
    pc = "run_list" =>
        /\ \A f \in 1..6 : Len(Filters[f]) = Len(dcheck_runsummary)
        /\ \A order \in Permutations(1..6) : AppliedInOrder(order, 6) = mask
        /\ printed[7].runs = Masked(Column(dcheck_runsummary, "runnumber"), mask)

C1_Witness ==
    /\ pc = "run_list"
    /\ \E f, g \in 1..6 : Filters[f] # Filters[g]
    /\ Len(printed[7].runs) < Len(dcheck_runsummary)

\* C2: no row of a file that lacks one of the five tables is in any of the
\* five dcheck_* tables.
C2_IncompleteFileNotLoaded ==
    \A n \in 1..Len(datacheck_files) :
        datacheck_files[n].tables # TableNames =>
            datacheck_files[n].runnumber \notin
                (RunsIn(dcheck_runsummary) \cup RunsIn(dcheck_pixwise_runsummary)
                 \cup RunsIn(dcheck_cosmics) \cup RunsIn(dcheck_flatfield)
                 \cup RunsIn(dcheck_pedestals))

\* C3: no run of the final list has non-finite num_pedestals or had
\* num_flatfield NaN in its input file.
C3_NoMissingInterleaved ==
    FinalPrinted =>
        \A n \in 1..Len(datacheck_files) :
            datacheck_files[n].runnumber \in FinalRuns =>
                /\ isfinite(datacheck_files[n].run.num_pedestals)
                /\ ~isnan(datacheck_files[n].run.num_flatfield)

\* C4 as stated: a run with the moon above the horizon at or above the
\* illumination limit, or with pulse30_std_cut False, is not in the final list.
C4_MoonAndStabilityApplied ==
    pc = "done" =>
        \A i \in 1..Len(dcheck_runsummary) :
            ((~no_moon[i] /\ moon_fraction[i] >= moon_fraction_limit) \/ ~pulse30_std_cut[i])
                => dcheck_runsummary[i].runnumber \notin FinalRuns

\* C4 amended: the final list is exactly the runs that pass the six masks,
\* and pulse30_std_cut is False only for runs of the final list.
C4_FinalIsSixMasks ==
    /\ FinalPrinted =>
          \A i \in 1..Len(dcheck_runsummary) :
              dcheck_runsummary[i].runnumber \in FinalRuns <=>
                  (source_mask[i] /\ zenith_mask[i] /\ ped_ok_mask[i]
                   /\ ped_std_cut[i] /\ rate_mask[i] /\ pix_rate_mask[i])
    /\ pc = "done" =>
          \A i \in 1..Len(dcheck_runsummary) :
              ~pulse30_std_cut[i] => dcheck_runsummary[i].runnumber \in FinalRuns

C4_Witness ==
    /\ pc = "done"
    /\ \E i \in 1..Len(dcheck_runsummary) :
          /\ ~no_moon[i] /\ moon_fraction[i] >= moon_fraction_limit
          /\ dcheck_runsummary[i].runnumber \in FinalRuns
    /\ \E i \in 1..Len(dcheck_runsummary) :
          /\ ~pulse30_std_cut[i]
          /\ dcheck_runsummary[i].runnumber \in FinalRuns

\* C5: every run of the final list has a ped_charge_stddev that is a number
\* strictly below max_ped_std.
C5_PedStdBelowMax ==
    FinalPrinted =>
        \A i \in 1..Len(dcheck_runsummary) :
            dcheck_runsummary[i].runnumber \in FinalRuns =>
                /\ ~dcheck_runsummary[i].ped_charge_stddev.nan
                /\ dcheck_runsummary[i].ped_charge_stddev.v < 100 * max_ped_std

C5_Witness ==
    /\ FinalPrinted
    /\ FinalRuns # {}
    /\ \E i \in 1..Len(dcheck_runsummary) :
          /\ dcheck_runsummary[i].ped_charge_stddev \in {F(100 * max_ped_std), NaN}
          /\ dcheck_runsummary[i].runnumber \notin FinalRuns

\* C6: every run selected by zenith_mask has 90 deg minus its minimum
\* altitude strictly between min_zenith and max_zenith.
C6_ZenithStrictlyInside ==
    zenith_mask # <<>> =>
        \A i \in 1..Len(dcheck_runsummary) :
            zenith_mask[i] =>
                /\ 90 - 5 * dcheck_runsummary[i].min_altitude > min_zenith
                /\ 90 - 5 * dcheck_runsummary[i].min_altitude < max_zenith

C6_Witness ==
    /\ zenith_mask # <<>>
    /\ \E i \in 1..Len(zenith_mask) : zenith_mask[i]
    /\ \E i \in 1..Len(zenith_mask) :
          /\ 90 - 5 * dcheck_runsummary[i].min_altitude \in {min_zenith, max_zenith}
          /\ ~zenith_mask[i]

\* C7: a run is selected by source_mask if and only if its mean pointing is
\* more than 0.35 deg and less than 0.45 deg away from the source.
C7_SourceMaskIsWobble ==
    source_mask # <<>> =>
        \A i \in 1..Len(dcheck_runsummary) :
            LET d == separation(source_coordinates, dcheck_runsummary[i].mean_ra,
                                dcheck_runsummary[i].mean_dec)
            IN  source_mask[i] <=> (d > 35 /\ d < 45)

C7_Witness ==
    /\ source_mask # <<>>
    /\ \E i \in 1..Len(source_mask) : source_mask[i]
    /\ \E i \in 1..Len(source_mask) :
          /\ ~source_mask[i]
          /\ dcheck_runsummary[i].mean_dec = source_coordinates.dec
\* the mask handed to the k-th call of print_runs
PrintedMask(k) ==
    CASE k = 1 -> source_mask
      [] k = 2 -> And(And(source_mask, zenith_mask), ped_ok_mask)
      [] k = 3 -> Mask4
      [] k \in {4, 5} -> And(Mask4, rate_mask)
      [] k \in {6, 7} -> And(And(Mask4, rate_mask), pix_rate_mask)

\* count and run numbers of an output are those of the True rows of m, in
\* table order
CountAndRunsOf(out, m) ==
    LET idx == TrueIdx(m)
    IN  /\ out.count = Cardinality(idx)
        /\ Len(out.runs) = Cardinality(idx)
        /\ \A i \in idx :
              out.runs[Cardinality({j \in idx : j <= i})] = dcheck_runsummary[i].runnumber

\* the seconds of the True rows of m
SecondsOf(m) ==
    SetSum(TrueIdx(m), [i \in 1..Len(dcheck_runsummary) |-> dcheck_runsummary[i].elapsed_time])

\* C8 as stated: every print_runs output has the count and the run numbers of
\* the masked rows and an observation time equal to their elapsed_time
\* sum divided by 3600.
C8_PrintRunsExactHours ==
    \A k \in 1..Len(printed) :
        /\ CountAndRunsOf(printed[k], PrintedMask(k))
        /\ 36 * printed[k].hours = SecondsOf(PrintedMask(k))

\* C8 amended: every print_runs output has the count and the run numbers of
\* the masked rows in table order, and an observation time that is their
\* elapsed_time sum divided by 3600 and rounded to two decimals.
C8_PrintRunsRoundedHours ==
    \A k \in 1..Len(printed) :
        /\ CountAndRunsOf(printed[k], PrintedMask(k))
        /\ 36 * printed[k].hours - SecondsOf(PrintedMask(k)) \in (0 - 18)..18

C8_Witness ==
    \E k \in 1..Len(printed) :
        /\ printed[k].count >= 1
        /\ printed[k].count < Len(dcheck_runsummary)
        /\ 36 * printed[k].hours # SecondsOf(PrintedMask(k))

\* C9: the runs of every printed selection are among the runs of the
\* selection printed before it.
C9_SelectionsShrink ==
    \A k \in 2..Len(printed) :
        {printed[k].runs[j] : j \in 1..Len(printed[k].runs)}
            \subseteq {printed[k - 1].runs[j] : j \in 1..Len(printed[k - 1].runs)}

C9_Witness ==
    /\ Len(printed) = 7
    /\ printed[7].runs # <<>>
    /\ Len(printed[7].runs) < Len(printed[1].runs)
====
